---- MODULE Spec2Model ----
(***************************************************************************)
(* Feature-flag service: evaluation engine (FeatureEvaluator), service     *)
(* layer (FeatureService), MongoDB repository with Redis cache-aside       *)
(* (FeatureRepository, cached variant) and the RedisCache wrapper.         *)
(*                                                                         *)
(* Strings that the code inspects character by character (override ids,    *)
(* context ids) are sequences of one-character strings; a Map is a         *)
(* function whose domain is the set of its keys; an optional field is a    *)
(* record field that may be missing from the record's domain; a value that *)
(* may be null is a sequence of length 0 (null) or 1.                      *)
(***************************************************************************)
EXTENDS Integers, Sequences, FiniteSets, TLC

\* ------------------------------------------------------------------------
\* Input domains

\* override ids: one plain id, one id containing a '.'
PlainId == <<"u">>
OtherId == <<"v">>
DottedId == <<"a", ".", "b">>
EmptyStr == <<>>
BlankId == <<" ">>

\* values that are not strings: null and a number (a string is a sequence of
\* one-character strings, which these are not)
JsNull == <<"null">>
JsNumber == <<"42">>

\* validateOverrideId's length limit and the string lengths tried around it
MaxOverrideIdLength == 100
PadChar == "x"
StrOfLen(n) == [i \in 1..n |-> PadChar]

Tiers == {"user", "group", "region"}
Reasons == {"user-override", "group-override", "region-override", "global-default"}

\* keys of the in-memory Maps handed to the evaluator
EvalIds == {PlainId, DottedId}
MapsOver(ids) == UNION {[S -> BOOLEAN] : S \in SUBSET ids}
EmptyMap == [x \in {} |-> TRUE]

\* the overrides object: users and groups always, regions possibly absent
OverridesOver(ids) ==
    [users : MapsOver(ids), groups : MapsOver(ids), regions : MapsOver(ids)]
    \cup [users : MapsOver(ids), groups : MapsOver(ids)]

EvalFlags ==
    [key : {"f1"}, enabled : BOOLEAN, overrides : OverridesOver(EvalIds)]

\* an evaluation context: any of userId, groupId, regionId may be missing;
\* a supplied value may be the empty string
CtxFields == {"userId", "groupId", "regionId"}
CtxValues == EvalIds \cup {EmptyStr}
ContextsOver(vals) == UNION {[S -> vals] : S \in SUBSET CtxFields}
EvalContexts == ContextsOver(CtxValues)

\* tier names: the context field, the override map and the reason of each
TierField(t) == IF t = "user" THEN "userId" ELSE IF t = "group" THEN "groupId" ELSE "regionId"
TierMapName(t) == IF t = "user" THEN "users" ELSE IF t = "group" THEN "groups" ELSE "regions"
TierReason(t) ==
    IF t = "user" THEN "user-override" ELSE IF t = "group" THEN "group-override" ELSE "region-override"
TierRank(t) == IF t = "user" THEN 1 ELSE IF t = "group" THEN 2 ELSE 3

\* ------------------------------------------------------------------------
\* FeatureEvaluator

\* JavaScript truthiness of an optional string field: present and non-empty
Truthy(ctx, field) == field \in DOMAIN ctx /\ ctx[field] \notin {EmptyStr, JsNull}

\* flag.overrides.regions?.has(id): false when regions is absent
RegionsHas(flag, id) ==
    "regions" \in DOMAIN flag.overrides /\ id \in DOMAIN flag.overrides.regions

EvalResult(flag, en, why) == [key |-> flag.key, enabled |-> en, reason |-> why]

\* a plausible slip: a stored false is treated like a missing entry
evaluateFalseFallsThrough(flag, context) ==
    IF Truthy(context, "userId") /\ context.userId \in DOMAIN flag.overrides.users
       /\ flag.overrides.users[context.userId]
    THEN EvalResult(flag, TRUE, "user-override")
    ELSE IF Truthy(context, "groupId") /\ context.groupId \in DOMAIN flag.overrides.groups
            /\ flag.overrides.groups[context.groupId]
    THEN EvalResult(flag, TRUE, "group-override")
    ELSE IF Truthy(context, "regionId") /\ RegionsHas(flag, context.regionId)
            /\ flag.overrides.regions[context.regionId]
    THEN EvalResult(flag, TRUE, "region-override")
    ELSE EvalResult(flag, flag.enabled, "global-default")

\* a plausible slip: the group tier is consulted before the user tier
evaluateGroupFirst(flag, context) ==
    IF Truthy(context, "groupId") /\ context.groupId \in DOMAIN flag.overrides.groups
    THEN EvalResult(flag, flag.overrides.groups[context.groupId], "group-override")
    ELSE IF Truthy(context, "userId") /\ context.userId \in DOMAIN flag.overrides.users
    THEN EvalResult(flag, flag.overrides.users[context.userId], "user-override")
    ELSE IF Truthy(context, "regionId") /\ RegionsHas(flag, context.regionId)
    THEN EvalResult(flag, flag.overrides.regions[context.regionId], "region-override")
    ELSE EvalResult(flag, flag.enabled, "global-default")

evaluate(flag, context) ==
    IF Truthy(context, "userId") /\ context.userId \in DOMAIN flag.overrides.users
    THEN EvalResult(flag, flag.overrides.users[context.userId], "user-override")
    ELSE IF Truthy(context, "groupId") /\ context.groupId \in DOMAIN flag.overrides.groups
    THEN EvalResult(flag, flag.overrides.groups[context.groupId], "group-override")
    ELSE IF Truthy(context, "regionId") /\ RegionsHas(flag, context.regionId)
    THEN EvalResult(flag, flag.overrides.regions[context.regionId], "region-override")
    ELSE EvalResult(flag, flag.enabled, "global-default")

\* ------------------------------------------------------------------------
\* Validators (domain/validators)

Whitespace == {" ", "\t", "\n"}
KeyChars ==
    {"a","b","c","d","e","f","g","h","i","j","k","l","m","n","o","p","q","r","s","t","u","v","w","x","y","z",
     "A","B","C","D","E","F","G","H","I","J","K","L","M","N","O","P","Q","R","S","T","U","V","W","X","Y","Z",
     "0","1","2","3","4","5","6","7","8","9","_","-"}
MaxKeyLength == 100
MaxDescriptionLength == 500

\* String.prototype.trim().length === 0: only whitespace characters
IsBlank(str) == \A i \in 1..Len(str) : str[i] \in Whitespace

validateFeatureKey(key) ==
    /\ key # EmptyStr
    /\ ~IsBlank(key)
    /\ \A i \in 1..Len(key) : key[i] \in KeyChars
    /\ Len(key) <= MaxKeyLength

\* the description is an optional string
validateDescription(req) ==
    "description" \in DOMAIN req => Len(req.description) <= MaxDescriptionLength

\* typeof enabled === "boolean": a value that was not supplied is undefined
validateEnabledState(req) == "enabled" \in DOMAIN req

\* a validator that lets every override type through
validateOverrideTypeAny(type) == TRUE

validateOverrideType(type) == type \in {"user", "group", "region"}

\* typeof id === "string"
IsString(id) == id \notin {JsNull, JsNumber}

validateOverrideId(id) ==
    /\ id \notin {EmptyStr, JsNull}
    /\ IsString(id)
    /\ ~IsBlank(id)
    /\ Len(id) <= MaxOverrideIdLength

\* only the identifiers that are truthy are looked at
validateEvaluationContextTruthyOnly(context) ==
    /\ \E f \in CtxFields : Truthy(context, f)
    /\ \A f \in CtxFields : Truthy(context, f) => validateOverrideId(context[f])

\* validateEvaluationContext on an object: one identifier is truthy, and
\* every identifier that is not undefined passes validateOverrideId
validateEvaluationContext(context) ==
    /\ \E f \in CtxFields : Truthy(context, f)
    /\ \A f \in CtxFields : f \in DOMAIN context => validateOverrideId(context[f])

\* validateEvaluationContext on any value: !context || typeof context !==
\* "object" rejects; an argument is [type |-> typeof, fields |-> its fields]
validateEvaluationContextArg(arg) ==
    arg.type = "object" /\ validateEvaluationContext(arg.fields)

\* ------------------------------------------------------------------------
\* Requests (the arguments of the FeatureService methods)

Key1 == <<"f">>
Key2 == <<"g">>
Desc1 == <<"d">>
LongId == StrOfLen(MaxOverrideIdLength + 1)

ReadOps == {"getFeature", "evaluateFeature"}
OverrideOps == {"addOrUpdateOverride", "removeOverride"}
MutatorOps == {"updateGlobalState", "addOrUpdateOverride", "removeOverride", "deleteFeature"}
WriteOps == MutatorOps \cup {"createFeature"}

CreateReqs(keys) == [op : {"createFeature"}, key : keys, description : {Desc1}, enabled : BOOLEAN]
GetReqs(keys) == [op : {"getFeature"}, key : keys]
DeleteReqs(keys) == [op : {"deleteFeature"}, key : keys]
UpdateReqs(keys) == [op : {"updateGlobalState"}, key : keys, enabled : BOOLEAN]
AddReqs(keys, types, ids) ==
    [op : {"addOrUpdateOverride"}, key : keys, type : types, id : ids, enabled : BOOLEAN]
RemoveReqs(keys, types, ids) == [op : {"removeOverride"}, key : keys, type : types, id : ids]
EvalReqs(keys, ctxs) == [op : {"evaluateFeature"}, key : keys, context : ctxs]
GetAllReqs == [op : {"getAllFeatures"}]

\* contexts carrying exactly one identifier
SingleIdContexts(ids) == UNION {[{f} -> ids] : f \in CtxFields}

\* requests with an invalid argument: a key outside the pattern, empty or
\* over-long, an over-long description, a missing enabled value, an unknown
\* override type, an empty or over-long context
BadKey == <<"f", ".">>
LongKey == StrOfLen(MaxKeyLength + 1)
LongDesc == StrOfLen(MaxDescriptionLength + 1)
InvalidRequests ==
    GetReqs({BadKey, EmptyStr, LongKey}) \cup DeleteReqs({BadKey})
    \cup [op : {"createFeature"}, key : {Key1}, description : {LongDesc}, enabled : {TRUE}]
    \cup [op : {"createFeature"}, key : {Key1}, description : {Desc1}]
    \cup [op : {"updateGlobalState"}, key : {Key1}]
    \cup [op : {"addOrUpdateOverride"}, key : {Key1}, type : {"user"}, id : {PlainId}]
    \cup AddReqs({Key1}, {"team"}, {PlainId}) \cup RemoveReqs({Key1}, {"team"}, {PlainId})
    \cup EvalReqs({Key1}, {EmptyMap, [regionId |-> LongId]})

\* one request at a time: every operation on Key1 with plain, dotted, blank
\* and over-long ids; creation, global update, read and deletion on Key2
SeqRequests ==
    CreateReqs({Key1, Key2}) \cup GetReqs({Key1, Key2}) \cup DeleteReqs({Key1, Key2})
    \cup UpdateReqs({Key1, Key2}) \cup GetAllReqs
    \cup AddReqs({Key1}, Tiers, {PlainId, BlankId, LongId})
    \cup [op : {"addOrUpdateOverride"}, key : {Key1}, type : {"user"}, id : {DottedId},
          enabled : {FALSE}]
    \cup RemoveReqs({Key1}, Tiers, {PlainId, DottedId, BlankId})
    \cup EvalReqs({Key1}, SingleIdContexts({PlainId, DottedId}))
    \cup EvalReqs({Key1}, {[userId |-> PlainId, groupId |-> PlainId, regionId |-> PlainId],
                           [userId |-> EmptyStr, groupId |-> PlainId]})
    \cup [op : {"createFeature"}, key : {Key1}, enabled : {TRUE}]
    \cup InvalidRequests

\* concurrent clients: client c1 issues any operation on one key and one user
\* id, client c2 reads the same key
ConcRequests ==
    [op : {"createFeature"}, key : {Key1}, description : {Desc1}, enabled : {FALSE}]
    \cup GetReqs({Key1}) \cup DeleteReqs({Key1}) \cup UpdateReqs({Key1})
    \cup AddReqs({Key1}, {"user"}, {PlainId}) \cup RemoveReqs({Key1}, {"user"}, {PlainId})
    \cup EvalReqs({Key1}, {[userId |-> PlainId]})
ReaderRequests == GetReqs({Key1}) \cup EvalReqs({Key1}, {[userId |-> PlainId]})

\* the validation that opens each FeatureService method
ValidRequest(req) ==
    IF req.op = "getAllFeatures" THEN TRUE
    ELSE /\ validateFeatureKey(req.key)
         /\ req.op = "createFeature" => validateDescription(req)
         /\ req.op \in {"createFeature", "updateGlobalState", "addOrUpdateOverride"} =>
                validateEnabledState(req)
         /\ req.op \in OverrideOps => validateOverrideType(req.type) /\ validateOverrideId(req.id)
         /\ req.op = "evaluateFeature" => validateEvaluationContext(req.context)

\* ------------------------------------------------------------------------
\* Flag store (FeatureFlagModel): documents, field paths, toDomain

\* `overrides.${type}s.${id}` as a sequence of tokens, '.' being its own token
overrideField(type, id) == <<"overrides", ".", TierMapName(type), ".">> \o id

\* the '.'-separated segments of a field path
RECURSIVE PathSegments(_)
PathSegments(path) ==
    IF \A i \in 1..Len(path) : path[i] # "."
    THEN <<path>>
    ELSE LET i == CHOOSE j \in 1..Len(path) :
                    path[j] = "." /\ \A h \in 1..(j - 1) : path[h] # "."
         IN <<SubSeq(path, 1, i - 1)>> \o PathSegments(SubSeq(path, i + 1, Len(path)))

\* the document created by create(): empty maps, timestamps set by the store
NewDoc(feature) ==
    [key |-> feature.key, description |-> feature.description, enabled |-> feature.enabled,
     overrides |-> [users |-> feature.overrides.users, groups |-> feature.overrides.groups,
                    regions |-> feature.overrides.regions],
     createdAt |-> "Date", updatedAt |-> "Date"]

\* $set of a field path on a document.  A path of three segments names one
\* entry of an override map.  A longer path names a field nested below the
\* entry called by its third segment, which is not an entry of the map: no
\* entry keyed by the whole id is written (here: the update is dropped).
SetPath(doc, path, value) ==
    LET segs == PathSegments(path)
        map == segs[2][1]
        id == segs[3]
    IN IF Len(segs) = 3
       THEN [doc EXCEPT !.overrides[map] =
                [k \in DOMAIN doc.overrides[map] \cup {id} |->
                    IF k = id THEN value ELSE doc.overrides[map][k]]]
       ELSE doc

\* the segments of a path below the map entry it starts in
RestPath(segs) == SubSeq(segs, 4, Len(segs))

\* $set of a path of more than three segments in MongoDB dot notation: the
\* field is set in an embedded document stored under the third segment
SetNested(doc, path, value) ==
    LET segs == PathSegments(path)
        map == segs[2][1]
        id == segs[3]
        field == RestPath(segs)
        old == IF id \in DOMAIN doc.overrides[map] THEN doc.overrides[map][id]
               ELSE [f \in {} |-> TRUE]
    IN [doc EXCEPT !.overrides[map] =
            [k \in DOMAIN doc.overrides[map] \cup {id} |->
                IF k = id
                THEN [f \in DOMAIN old \cup {field} |-> IF f = field THEN value ELSE old[f]]
                ELSE doc.overrides[map][k]]]

\* what updateOne with $set can leave behind: for a path of more than three
\* segments either outcome, the update dropped or the nested field written
SetOutcomes(doc, path, value) ==
    IF Len(PathSegments(path)) = 3
    THEN {SetPath(doc, path, value)}
    ELSE {SetPath(doc, path, value), SetNested(doc, path, value)}

\* $unset of a field path on a document; a path of more than three segments
\* removes the field of the embedded document it names, if there is one
UnsetPath(doc, path) ==
    LET segs == PathSegments(path)
        map == segs[2][1]
        id == segs[3]
    IN IF Len(segs) = 3
       THEN [doc EXCEPT !.overrides[map] =
                [k \in DOMAIN doc.overrides[map] \ {id} |-> doc.overrides[map][k]]]
       ELSE IF id \in DOMAIN doc.overrides[map]
       THEN [doc EXCEPT !.overrides[map][id] =
                [f \in DOMAIN @ \ {RestPath(segs)} |-> @[f]]]
       ELSE doc

toDomain(doc) ==
    [key |-> doc.key, description |-> doc.description, enabled |-> doc.enabled,
     overrides |-> [users |-> doc.overrides.users, groups |-> doc.overrides.groups,
                    regions |-> doc.overrides.regions],
     createdAt |-> doc.createdAt, updatedAt |-> doc.updatedAt]

\* ------------------------------------------------------------------------
\* Cached values: JSON.stringify of the cacheable feature, JSON.parse back

\* Maps become plain objects; JSON.stringify turns a Date into an ISO string
Stringify(featureOrNull) ==
    [kind |-> "json",
     body |-> IF featureOrNull = <<>> THEN <<>>
              ELSE LET feature == featureOrNull[1]
                   IN <<[feature EXCEPT
                           !.overrides = [users |-> [k \in DOMAIN feature.overrides.users |-> feature.overrides.users[k]],
                                          groups |-> [k \in DOMAIN feature.overrides.groups |-> feature.overrides.groups[k]],
                                          regions |-> [k \in DOMAIN feature.overrides.regions |-> feature.overrides.regions[k]]],
                           !.createdAt = "string", !.updatedAt = "string"]>>]

Garbage == [kind |-> "garbage", body |-> <<>>]

\* JSON.parse followed by feature.overrides.users = new Map(...) etc.:
\* throws on text that is not JSON and on the JSON value null
ParseThrows(value) == value.kind # "json" \/ value.body = <<>>
ParseCached(value) == value.body[1]

\* ------------------------------------------------------------------------
\* State

Procs == {"c1", "c2"}

VARIABLES
    evFlag,     \* function harness: the flag (or flags) passed to the evaluator
    evCtx,      \* function harness: the context, error or argument passed
    evOut,      \* function harness: <<>> before the call, <<result>> after
    phase,      \* "boot" until startServer has awaited redisCache.connect()
    store,      \* featureflags collection: key -> document
    redis,      \* Redis contents: key -> [value, ttl]
    rc,         \* RedisCache fields: client, isConnected, isEnabled, handlers
    faulty,     \* environment: Redis commands may fail, foreign values appear
    pc,         \* per client: position in the request it is running
    req,        \* per client: the request
    feature,    \* per client: findByKey's store result, <<>> for null
    out,        \* per client: outcome of the request
    io,         \* per client: calls made by the request so far
    clean       \* per client: no write of the same key overlapped the request

evalVars == <<evFlag, evCtx, evOut>>
sysVars == <<phase, store, redis, rc, faulty, pc, req, feature, out, io, clean>>
vars == <<evFlag, evCtx, evOut, phase, store, redis, rc, faulty, pc, req, feature, out, io, clean>>

NoReq == [op |-> "none"]
NoOut == [err |-> "pending", val |-> <<>>, originalError |-> <<>>]
NoIo == [gets |-> 0, finds |-> 0, sets |-> 0, dels |-> 0, hit |-> FALSE, fault |-> FALSE, deleted |-> FALSE]
AllKeys == {Key1, Key2}

InitSys(f) ==
    /\ phase = "boot"
    /\ store = [k \in {} |-> 0]
    /\ redis = [k \in {} |-> 0]
    /\ rc = [client |-> FALSE, isConnected |-> FALSE, isEnabled |-> TRUE, handlers |-> FALSE]
    /\ faulty = f
    /\ pc = [p \in Procs |-> "idle"]
    /\ req = [p \in Procs |-> NoReq]
    /\ feature = [p \in Procs |-> <<>>]
    /\ out = [p \in Procs |-> NoOut]
    /\ io = [p \in Procs |-> NoIo]
    /\ clean = [p \in Procs |-> TRUE]

\* ------------------------------------------------------------------------
\* RedisCache

\* a guard that lets every call through to Redis
CacheAlwaysAvailable == TRUE

\* the guard that opens get, set, delete and deletePattern
CacheAvailable == rc.isEnabled /\ rc.client /\ rc.isConnected

\* outcomes of a Redis command: it may throw only in a faulty environment
Throws == IF faulty THEN BOOLEAN ELSE {FALSE}

\* setEx without an expiry: the entry never leaves the cache by itself
SetExNoExpiry(contents, key, value) ==
    [k \in DOMAIN contents \cup {key} |->
        IF k = key THEN [value |-> value, ttl |-> FALSE] ELSE contents[k]]

\* client.setEx(key, ttl, value)
SetEx(contents, key, value) ==
    [k \in DOMAIN contents \cup {key} |->
        IF k = key THEN [value |-> value, ttl |-> TRUE] ELSE contents[k]]

\* del that leaves the entry in place
DelNothing(contents, key) == contents

\* client.del(key)
Del(contents, key) == [k \in DOMAIN contents \ {key} |-> contents[k]]

\* what get returns for a key when the command does not throw
CacheLookup(k) == IF CacheAvailable /\ k \in DOMAIN redis THEN <<redis[k].value>> ELSE <<>>

\* connect(), awaited by startServer before app.listen
Connect ==
    /\ phase = "boot"
    /\ phase' = "listening"
    /\ \E outcome \in {"disabled", "failed", "ready"} :
         rc' = IF outcome = "disabled"
               THEN [rc EXCEPT !.isEnabled = FALSE]
               ELSE IF outcome = "failed"
               THEN [client |-> FALSE, isConnected |-> FALSE, isEnabled |-> FALSE, handlers |-> TRUE]
               ELSE [client |-> TRUE, isConnected |-> TRUE, isEnabled |-> TRUE, handlers |-> TRUE]
    /\ UNCHANGED <<store, redis, faulty, pc, req, feature, out, io, clean>>
    /\ UNCHANGED evalVars

\* client.on("error") and client.on("end")
CacheError ==
    /\ phase = "listening" /\ rc.handlers /\ rc.client
    /\ rc.isConnected
    /\ rc' = [rc EXCEPT !.isConnected = FALSE]
    /\ UNCHANGED <<phase, store, redis, faulty, pc, req, feature, out, io, clean>>
    /\ UNCHANGED evalVars

\* client.on("ready")
CacheReady ==
    /\ phase = "listening" /\ rc.handlers /\ rc.client
    /\ ~rc.isConnected
    /\ rc' = [rc EXCEPT !.isConnected = TRUE]
    /\ UNCHANGED <<phase, store, redis, faulty, pc, req, feature, out, io, clean>>
    /\ UNCHANGED evalVars

\* Redis drops an entry whose time-to-live has run out
Expire ==
    /\ \E k \in DOMAIN redis :
         /\ redis[k].ttl
         /\ redis' = Del(redis, k)
    /\ UNCHANGED <<phase, store, rc, faulty, pc, req, feature, out, io, clean>>
    /\ UNCHANGED evalVars

\* another Redis client leaves a value under the key that is not a
\* serialized feature
ForeignValue ==
    /\ faulty /\ phase = "listening"
    /\ \E k \in {Key1} :
         /\ (k \in DOMAIN redis => redis[k].value # Garbage)
         /\ redis' = SetEx(redis, k, Garbage)
    /\ UNCHANGED <<phase, store, rc, pc, req, feature, out, io, clean>>
    /\ UNCHANGED faulty
    /\ UNCHANGED evalVars

\* ------------------------------------------------------------------------
\* FeatureService over the cached FeatureRepository, one step per await

InFlight(q) == pc[q] \notin {"idle", "done"}
WritesOf(k, others) ==
    {q \in others : InFlight(q) /\ req[q].op \in WriteOps /\ req[q].key = k}

FirstPc(r) ==
    IF r.op = "createFeature" THEN "create"
    ELSE IF r.op = "getAllFeatures" THEN "findall"
    ELSE IF r.op \in {"updateGlobalState", "deleteFeature"} THEN "repo_write"
    ELSE "fbk_get"

Failure(e) == [err |-> e, val |-> <<>>, originalError |-> <<>>]
Success(v) == [err |-> "none", val |-> v, originalError |-> <<>>]

\* new DatabaseError(message, error)
DatabaseFailure(error) == [err |-> "DatabaseError", val |-> <<>>, originalError |-> <<error>>]

\* what a rejected store call can be rejected with, besides the duplicate-key
\* error E11000 and the schema's ValidatorError
StoreErrors == {"MongoNetworkError", "MongoServerError"}

\* catch of create: code 11000 becomes DuplicateFeatureError
CatchCreate(error) ==
    IF error = "E11000" THEN Failure("DuplicateFeatureError") ELSE DatabaseFailure(error)

\* catch of findByKey and findAll
CatchRead(error) == DatabaseFailure(error)

\* a catch that wraps whatever was thrown
CatchWriteWrapsAll(error) == DatabaseFailure(error)

\* catch of updateGlobalState, addOrUpdateOverride, removeOverride, delete:
\* a FeatureNotFoundError is thrown on as it is
CatchWrite(error) ==
    IF error = "FeatureNotFoundError" THEN Failure(error) ELSE DatabaseFailure(error)

\* the service method is called: validation, then the first repository call
Begin(p, r) ==
    /\ phase = "listening"
    /\ pc[p] = "idle"
    /\ req' = [req EXCEPT ![p] = r]
    /\ io' = [io EXCEPT ![p] = NoIo]
    /\ IF ValidRequest(r)
       THEN /\ pc' = [pc EXCEPT ![p] = FirstPc(r)]
            /\ out' = [out EXCEPT ![p] = NoOut]
            /\ clean' = [q \in Procs |->
                 IF q = p THEN r.op = "getAllFeatures" \/ WritesOf(r.key, Procs \ {p}) = {}
                 ELSE IF r.op \in WriteOps /\ pc[q] # "idle" /\ req[q].op # "getAllFeatures"
                         /\ req[q].key = r.key
                 THEN FALSE ELSE clean[q]]
       ELSE /\ pc' = [pc EXCEPT ![p] = "done"]
            /\ out' = [out EXCEPT ![p] = Failure("ValidationError")]
            /\ UNCHANGED clean
    /\ UNCHANGED <<phase, store, redis, rc, faulty, feature>>
    /\ UNCHANGED evalVars

\* Mongoose schema validation in doc.save(): description is required
SchemaAccepts(r) == "description" \in DOMAIN r /\ r.description # EmptyStr

\* an index that lets a second document with the same key in
DuplicateKeyNever(contents, key) == FALSE

\* the unique index on key: inserting a key that is present fails (E11000)
DuplicateKey(contents, key) == key \in DOMAIN contents

\* repository.create: doc.save() against the unique index on key
StepCreate(p) ==
    /\ pc[p] = "create"
    /\ LET r == req[p]
           f == [key |-> r.key, description |-> r.description, enabled |-> r.enabled,
                 overrides |-> [users |-> EmptyMap, groups |-> EmptyMap, regions |-> EmptyMap]]
       IN IF ~SchemaAccepts(r)
          THEN /\ out' = [out EXCEPT ![p] = CatchCreate("ValidatorError")]
               /\ UNCHANGED <<store>>
          ELSE IF DuplicateKey(store, r.key)
          THEN /\ out' = [out EXCEPT ![p] = CatchCreate("E11000")]
               /\ UNCHANGED <<store>>
          ELSE /\ store' = [k \in DOMAIN store \cup {r.key} |->
                              IF k = r.key THEN NewDoc(f) ELSE store[k]]
               /\ out' = [out EXCEPT ![p] = Success(<<toDomain(NewDoc(f))>>)]
    /\ pc' = [pc EXCEPT ![p] = "done"]
    /\ UNCHANGED <<phase, redis, rc, faulty, req, feature, io, clean>>
    /\ UNCHANGED evalVars

\* code-unit order of the characters that occur in keys
CodeOrder == <<"-", "0", "1", "A", "Z", "_", "a", "f", "g", "z">>
CodeOf(c) == CHOOSE i \in 1..Len(CodeOrder) : CodeOrder[i] = c
RECURSIVE KeyLess(_, _)
KeyLess(a, b) ==
    IF a = <<>> THEN b # <<>>
    ELSE IF b = <<>> THEN FALSE
    ELSE IF a[1] # b[1] THEN CodeOf(a[1]) < CodeOf(b[1])
    ELSE KeyLess(Tail(a), Tail(b))

\* find().sort({ key: 1 }): the keys in ascending order
RECURSIVE SortedKeys(_)
SortedKeys(S) ==
    IF S = {} THEN <<>>
    ELSE LET m == CHOOSE x \in S : \A y \in S \ {x} : KeyLess(x, y)
         IN <<m>> \o SortedKeys(S \ {m})

\* repository.findAll
StepFindAll(p) ==
    /\ pc[p] = "findall"
    /\ LET ks == SortedKeys(DOMAIN store)
       IN out' = [out EXCEPT ![p] = Success([i \in 1..Len(ks) |-> toDomain(store[ks[i]])])]
    /\ pc' = [pc EXCEPT ![p] = "done"]
    /\ UNCHANGED <<phase, store, redis, rc, faulty, req, feature, io, clean>>
    /\ UNCHANGED evalVars

\* what follows findByKey's return in getFeature and its callers:
\* the next position and the outcome
AfterFindByKey(p, f) ==
    IF f = <<>>
    THEN /\ pc' = [pc EXCEPT ![p] = "done"]
         /\ out' = [out EXCEPT ![p] = Failure("FeatureNotFoundError")]
    ELSE IF req[p].op = "getFeature"
    THEN /\ pc' = [pc EXCEPT ![p] = "done"]
         /\ out' = [out EXCEPT ![p] = Success(f)]
    ELSE IF req[p].op = "evaluateFeature"
    THEN /\ pc' = [pc EXCEPT ![p] = "done"]
         /\ out' = [out EXCEPT ![p] = Success(<<evaluate(f[1], req[p].context)>>)]
    ELSE /\ pc' = [pc EXCEPT ![p] = "repo_write"]
         /\ UNCHANGED out

\* findByKey: await this.cache.get(cacheKey), then the hit branch
StepFbkGet(p) ==
    /\ pc[p] = "fbk_get"
    /\ LET k == req[p].key
       IN \E throws \in Throws :
            LET failed == ~CacheAvailable \/ throws
                cached == IF throws THEN <<>> ELSE CacheLookup(k)
            IN IF cached # <<>>
               THEN IF ParseThrows(cached[1])
                    THEN /\ pc' = [pc EXCEPT ![p] = "done"]
                         /\ out' = [out EXCEPT ![p] = CatchRead("SyntaxError")]
                         /\ io' = [io EXCEPT ![p].gets = @ + 1, ![p].hit = TRUE, ![p].fault = TRUE]
                    ELSE /\ AfterFindByKey(p, <<ParseCached(cached[1])>>)
                         /\ io' = [io EXCEPT ![p].gets = @ + 1, ![p].hit = TRUE]
               ELSE /\ pc' = [pc EXCEPT ![p] = "fbk_find"]
                    /\ io' = [io EXCEPT ![p].gets = @ + 1, ![p].fault = @ \/ failed]
                    /\ UNCHANGED out
    /\ UNCHANGED <<phase, store, redis, rc, faulty, req, feature, clean>>
    /\ UNCHANGED evalVars

\* findByKey caches every store result, null included
ShouldCacheAlways(f) == TRUE

\* findByKey: if (feature) { ... cache.set ... }
ShouldCache(f) == f # <<>>

\* a lookup that upserts: a key that is absent is inserted with defaults
StepFbkFindUpserting(p) ==
    /\ pc[p] = "fbk_find"
    /\ LET k == req[p].key
           blank == [key |-> k, description |-> Desc1, enabled |-> FALSE,
                     overrides |-> [users |-> EmptyMap, groups |-> EmptyMap, regions |-> EmptyMap]]
       IN /\ store' = [j \in DOMAIN store \cup {k} |->
                          IF j \in DOMAIN store THEN store[j] ELSE NewDoc(blank)]
          /\ io' = [io EXCEPT ![p].finds = @ + 1]
          /\ feature' = [feature EXCEPT ![p] = <<toDomain(store'[k])>>]
          /\ pc' = [pc EXCEPT ![p] = "fbk_set"]
          /\ UNCHANGED out
    /\ UNCHANGED <<phase, redis, rc, faulty, req, clean>>
    /\ UNCHANGED evalVars

\* findByKey: await FeatureFlagModel.findOne({ key }).exec()
StepFbkFind(p) ==
    /\ pc[p] = "fbk_find"
    /\ LET k == req[p].key
           f == IF k \in DOMAIN store THEN <<toDomain(store[k])>> ELSE <<>>
       IN /\ io' = [io EXCEPT ![p].finds = @ + 1]
          /\ IF ShouldCache(f)
             THEN /\ feature' = [feature EXCEPT ![p] = f]
                  /\ pc' = [pc EXCEPT ![p] = "fbk_set"]
                  /\ UNCHANGED out
             ELSE /\ AfterFindByKey(p, f)
                  /\ UNCHANGED feature
    /\ UNCHANGED <<phase, store, redis, rc, faulty, req, clean>>
    /\ UNCHANGED evalVars

\* findByKey: await this.cache.set(cacheKey, JSON.stringify(cacheableFeature))
StepFbkSet(p) ==
    /\ pc[p] = "fbk_set"
    /\ LET k == req[p].key
       IN \E throws \in Throws :
            LET failed == ~CacheAvailable \/ throws
            IN /\ redis' = IF failed THEN redis ELSE SetEx(redis, k, Stringify(feature[p]))
               /\ io' = [io EXCEPT ![p].sets = @ + 1, ![p].fault = @ \/ failed]
    /\ AfterFindByKey(p, feature[p])
    /\ feature' = [feature EXCEPT ![p] = <<>>]
    /\ UNCHANGED <<phase, store, rc, faulty, req, clean>>
    /\ UNCHANGED evalVars

\* an update that reports a match whether or not a document has the key
matchedCountOne(contents, key) == 1

\* result.matchedCount / result.deletedCount of updateOne / deleteOne({ key })
matchedCount(contents, key) == IF key \in DOMAIN contents THEN 1 ELSE 0

\* the store write of updateGlobalState, addOrUpdateOverride, removeOverride
\* (updateOne) and delete (deleteOne); matchedCount/deletedCount 0 raises
\* FeatureNotFoundError
StepRepoWrite(p) ==
    /\ pc[p] = "repo_write"
    /\ LET r == req[p]
           k == r.key
       IN IF matchedCount(store, k) = 0
          THEN /\ pc' = [pc EXCEPT ![p] = "done"]
               /\ out' = [out EXCEPT ![p] = CatchWrite("FeatureNotFoundError")]
               /\ UNCHANGED store
          ELSE /\ pc' = [pc EXCEPT ![p] = "cache_del"]
               /\ UNCHANGED out
               /\ IF r.op = "deleteFeature"
                  THEN store' = [j \in DOMAIN store \ {k} |-> store[j]]
                  ELSE IF r.op = "updateGlobalState"
                  THEN store' = [store EXCEPT ![k].enabled = r.enabled]
                  ELSE IF r.op = "addOrUpdateOverride"
                  THEN \E doc \in SetOutcomes(store[k], overrideField(r.type, r.id), r.enabled) :
                         store' = [store EXCEPT ![k] = doc]
                  ELSE store' = [store EXCEPT ![k] = UnsetPath(@, overrideField(r.type, r.id))]
    /\ UNCHANGED <<phase, redis, rc, faulty, req, feature, io, clean>>
    /\ UNCHANGED evalVars

\* the mutators' await this.cache.delete(this.CACHE_KEY_PREFIX + key)
StepCacheDel(p) ==
    /\ pc[p] = "cache_del"
    /\ LET k == req[p].key
       IN \E throws \in Throws :
            LET failed == ~CacheAvailable \/ throws
            IN /\ redis' = IF failed THEN redis ELSE Del(redis, k)
               /\ io' = [io EXCEPT ![p].dels = @ + 1, ![p].fault = @ \/ failed,
                                   ![p].deleted = ~failed]
    /\ pc' = [pc EXCEPT ![p] = "done"]
    /\ out' = [out EXCEPT ![p] = Success(<<>>)]
    /\ UNCHANGED <<phase, store, rc, faulty, req, feature, clean>>
    /\ UNCHANGED evalVars

\* ------------------------------------------------------------------------
\* FeatureRepository, uncached variant: each method against the store alone,
\* as the store contents it leaves and the outcome it returns

UncachedCreate(contents, r) ==
    LET f == [key |-> r.key, description |-> r.description, enabled |-> r.enabled,
              overrides |-> [users |-> EmptyMap, groups |-> EmptyMap, regions |-> EmptyMap]]
    IN IF ~SchemaAccepts(r)
       THEN [store |-> contents, out |-> CatchCreate("ValidatorError")]
       ELSE IF DuplicateKey(contents, r.key)
       THEN [store |-> contents, out |-> CatchCreate("E11000")]
       ELSE [store |-> [k \in DOMAIN contents \cup {r.key} |->
                           IF k = r.key THEN NewDoc(f) ELSE contents[k]],
             out |-> Success(<<toDomain(NewDoc(f))>>)]

UncachedFindByKey(contents, key) ==
    IF key \in DOMAIN contents THEN <<toDomain(contents[key])>> ELSE <<>>

UncachedFindAll(contents) ==
    LET ks == SortedKeys(DOMAIN contents)
    IN [i \in 1..Len(ks) |-> toDomain(contents[ks[i]])]

\* updateGlobalState, addOrUpdateOverride, removeOverride and delete
UncachedWrite(contents, r) ==
    IF matchedCount(contents, r.key) = 0
    THEN {[store |-> contents, out |-> CatchWrite("FeatureNotFoundError")]}
    ELSE IF r.op = "deleteFeature"
    THEN {[store |-> [j \in DOMAIN contents \ {r.key} |-> contents[j]], out |-> Success(<<>>)]}
    ELSE IF r.op = "updateGlobalState"
    THEN {[store |-> [contents EXCEPT ![r.key].enabled = r.enabled], out |-> Success(<<>>)]}
    ELSE IF r.op = "addOrUpdateOverride"
    THEN {[store |-> [contents EXCEPT ![r.key] = doc], out |-> Success(<<>>)] :
             doc \in SetOutcomes(contents[r.key], overrideField(r.type, r.id), r.enabled)}
    ELSE {[store |-> [contents EXCEPT ![r.key] = UnsetPath(@, overrideField(r.type, r.id))],
           out |-> Success(<<>>)]}

\* the caller takes the outcome; the client is free for its next request
Return(p) ==
    /\ pc[p] = "done"
    /\ pc' = [pc EXCEPT ![p] = "idle"]
    /\ req' = [req EXCEPT ![p] = NoReq]
    /\ out' = [out EXCEPT ![p] = NoOut]
    /\ io' = [io EXCEPT ![p] = NoIo]
    /\ clean' = [clean EXCEPT ![p] = TRUE]
    /\ UNCHANGED <<phase, store, redis, rc, faulty, feature>>
    /\ UNCHANGED evalVars

\* ------------------------------------------------------------------------
\* Specifications

\* concurrent clients, connection events, expiry
Init ==
    /\ InitSys(FALSE)
    /\ evFlag = <<>> /\ evCtx = <<>> /\ evOut = <<>>

Next ==
    \/ Connect
    \/ CacheError
    \/ CacheReady
    \/ Expire
    \/ \E r \in ConcRequests : Begin("c1", r)
    \/ \E r \in ReaderRequests : Begin("c2", r)
    \/ \E p \in Procs : StepCreate(p)
    \/ \E p \in Procs : StepFbkGet(p)
    \/ \E p \in Procs : StepFbkFind(p)
    \/ \E p \in Procs : StepFbkSet(p)
    \/ \E p \in Procs : StepRepoWrite(p)
    \/ \E p \in Procs : StepCacheDel(p)
    \/ \E p \in Procs : Return(p)

Spec == Init /\ [][Next]_vars

\* one request at a time against a cache that stays connected
NextSeq ==
    \/ Connect
    \/ Expire
    \/ \E r \in SeqRequests : Begin("c1", r)
    \/ StepCreate("c1")
    \/ StepFindAll("c1")
    \/ StepFbkGet("c1")
    \/ StepFbkFind("c1")
    \/ StepFbkSet("c1")
    \/ StepRepoWrite("c1")
    \/ StepCacheDel("c1")
    \/ Return("c1")

SpecSeq == Init /\ [][NextSeq]_vars

\* a writer and a reader of one key; Redis honours every time-to-live
LiveWriterRequests ==
    [op : {"createFeature"}, key : {Key1}, description : {Desc1}, enabled : {FALSE}]
    \cup DeleteReqs({Key1}) \cup UpdateReqs({Key1})

NextLive ==
    \/ Connect
    \/ CacheError
    \/ CacheReady
    \/ Expire
    \/ \E r \in LiveWriterRequests : Begin("c1", r)
    \/ \E r \in GetReqs({Key1}) : Begin("c2", r)
    \/ \E p \in Procs : StepCreate(p)
    \/ \E p \in Procs : StepFbkGet(p)
    \/ \E p \in Procs : StepFbkFind(p)
    \/ \E p \in Procs : StepFbkSet(p)
    \/ \E p \in Procs : StepRepoWrite(p)
    \/ \E p \in Procs : StepCacheDel(p)
    \/ \E p \in Procs : Return(p)

SpecLive == Init /\ [][NextLive]_vars /\ WF_vars(Expire)

\* two clients creating flags under the same keys, c1 disabled and c2 enabled
NextCreate ==
    \/ Connect
    \/ \E r \in [op : {"createFeature"}, key : {Key1, Key2}, description : {Desc1},
                  enabled : {FALSE}] : Begin("c1", r)
    \/ \E r \in [op : {"createFeature"}, key : {Key1, Key2}, description : {Desc1},
                  enabled : {TRUE}] : Begin("c2", r)
    \/ \E p \in Procs : StepCreate(p)
    \/ \E p \in Procs : Return(p)

SpecCreate == Init /\ [][NextCreate]_vars

\* two clients, each making one addOrUpdateOverride call on a flag that
\* exists with a group entry: c1 writes one user entry (plain or dotted id),
\* c2 the same entry or a second one
SeedDoc ==
    NewDoc([key |-> Key1, description |-> Desc1, enabled |-> TRUE,
            overrides |-> [users |-> EmptyMap, groups |-> [k \in {PlainId} |-> TRUE],
                           regions |-> EmptyMap]])

InitAdd ==
    /\ phase = "boot"
    /\ store = [k \in {Key1} |-> SeedDoc]
    /\ redis = [k \in {} |-> 0]
    /\ rc = [client |-> FALSE, isConnected |-> FALSE, isEnabled |-> TRUE, handlers |-> FALSE]
    /\ faulty = FALSE
    /\ pc = [p \in Procs |-> "idle"]
    /\ req = [p \in Procs |-> NoReq]
    /\ feature = [p \in Procs |-> <<>>]
    /\ out = [p \in Procs |-> NoOut]
    /\ io = [p \in Procs |-> NoIo]
    /\ clean = [p \in Procs |-> TRUE]
    /\ evFlag = <<>> /\ evCtx = <<>> /\ evOut = <<>>

NextAdd ==
    \/ Connect
    \/ Expire
    \/ \E r \in AddReqs({Key1}, {"user"}, {PlainId, DottedId}) : Begin("c1", r)
    \/ \E r \in AddReqs({Key1}, {"user"}, {PlainId, OtherId}) : Begin("c2", r)
    \/ \E p \in Procs : StepFbkGet(p)
    \/ \E p \in Procs : StepFbkFind(p)
    \/ \E p \in Procs : StepFbkSet(p)
    \/ \E p \in Procs : StepRepoWrite(p)
    \/ \E p \in Procs : StepCacheDel(p)

SpecAdd == InitAdd /\ [][NextAdd]_vars

\* one request at a time in a faulty environment: Redis commands may throw,
\* the connection comes and goes, foreign values appear under the key
InitFault ==
    /\ InitSys(TRUE)
    /\ evFlag = <<>> /\ evCtx = <<>> /\ evOut = <<>>

NextFault ==
    \/ Connect
    \/ Expire
    \/ \E r \in ConcRequests : Begin("c1", r)
    \/ StepCreate("c1")
    \/ StepFbkGet("c1")
    \/ StepFbkFind("c1")
    \/ StepFbkSet("c1")
    \/ StepRepoWrite("c1")
    \/ StepCacheDel("c1")
    \/ Return("c1")
    \/ CacheError
    \/ CacheReady
    \/ ForeignValue

SpecFault == InitFault /\ [][NextFault]_vars

\* ------------------------------------------------------------------------
\* Evaluator harness: evaluate applied to every flag and context

InitEval ==
    /\ evFlag \in EvalFlags
    /\ evCtx \in EvalContexts
    /\ evOut = <<>>
    /\ InitSys(FALSE)

EvalApply ==
    /\ evOut = <<>>
    /\ evOut' = <<evaluate(evFlag, evCtx)>>
    /\ UNCHANGED <<evFlag, evCtx>>
    /\ UNCHANGED sysVars

NextEval == EvalApply

SpecEval == InitEval /\ [][NextEval]_vars

\* ------------------------------------------------------------------------
\* Properties of the evaluator

\* the override map of a tier, an absent regions map counting as empty
TierMap(flag, t) ==
    IF TierMapName(t) \in DOMAIN flag.overrides THEN flag.overrides[TierMapName(t)] ELSE EmptyMap

\* the tiers whose map holds the context's identifier as a key
MatchingTiers(flag, ctx) ==
    {t \in Tiers : TierField(t) \in DOMAIN ctx /\ ctx[TierField(t)] \in DOMAIN TierMap(flag, t)}

\* the flag with one override entry written / removed, or the global value changed
WithEntry(flag, t, id, v) ==
    [flag EXCEPT !.overrides =
        [n \in DOMAIN flag.overrides \cup {TierMapName(t)} |->
            IF n = TierMapName(t)
            THEN [k \in DOMAIN TierMap(flag, t) \cup {id} |-> IF k = id THEN v ELSE TierMap(flag, t)[k]]
            ELSE flag.overrides[n]]]
WithoutEntry(flag, t, id) ==
    [flag EXCEPT !.overrides =
        [n \in DOMAIN flag.overrides |->
            IF n = TierMapName(t)
            THEN [k \in DOMAIN flag.overrides[n] \ {id} |-> flag.overrides[n][k]]
            ELSE flag.overrides[n]]]
LowerTierEdits(flag, top) ==
    {WithEntry(flag, t, id, v) : t \in {s \in Tiers : TierRank(s) > TierRank(top)}, id \in EvalIds, v \in BOOLEAN}
    \cup {WithoutEntry(flag, t, id) : t \in {s \in Tiers : TierRank(s) > TierRank(top)}, id \in EvalIds}
    \cup {[flag EXCEPT !.enabled = ~flag.enabled]}

\* C1: for every flag (regions possibly absent) and every context with at
\* least one identifier, evaluate returns the reason of the highest-precedence
\* tier whose map holds the context's identifier, with that entry's stored
\* value (a stored false included); with no such tier it returns
\* global-default with flag.enabled.
C1_PrecedenceTotality ==
    (evOut # <<>> /\ DOMAIN evCtx # {}) =>
        LET r == evOut[1]
            M == MatchingTiers(evFlag, evCtx)
        IN /\ r.reason \in Reasons
           /\ r.key = evFlag.key
           /\ IF M = {}
              THEN r.reason = "global-default" /\ r.enabled = evFlag.enabled
              ELSE \E t \in M :
                     /\ \A s \in M : TierRank(t) <= TierRank(s)
                     /\ r.reason = TierReason(t)
                     /\ r.enabled = TierMap(evFlag, t)[evCtx[TierField(t)]]

\* group tier wins with a stored false while the user id is supplied but has
\* no entry and the region tier matches as well
C1_Witness ==
    /\ evOut # <<>>
    /\ evOut[1].reason = "group-override" /\ evOut[1].enabled = FALSE
    /\ "userId" \in DOMAIN evCtx /\ evCtx.userId \notin DOMAIN evFlag.overrides.users
    /\ "region" \in MatchingTiers(evFlag, evCtx)
    /\ evFlag.enabled = TRUE

\* C2: when a tier matches the context, writing or removing any entry of a
\* lower-precedence tier, or changing the global value, leaves the result
\* of evaluate (enabled and reason) unchanged.
C2_TierIndependence ==
    evOut # <<>> =>
        \A top \in MatchingTiers(evFlag, evCtx) :
            \A g \in LowerTierEdits(evFlag, top) : evaluate(g, evCtx) = evOut[1]

\* user tier matched with false while the group tier holds true for the context
C2_Witness ==
    /\ evOut # <<>>
    /\ evOut[1].reason = "user-override" /\ evOut[1].enabled = FALSE
    /\ "group" \in MatchingTiers(evFlag, evCtx)
    /\ evFlag.overrides.groups[evCtx.groupId] = TRUE

\* ------------------------------------------------------------------------
\* Properties of the service over the cached repository

\* the flag without its timestamps
View(f) == [key |-> f.key, description |-> f.description, enabled |-> f.enabled,
            overrides |-> f.overrides]

\* findByKey, and evaluateFeature, run from the current state to completion
\* with no other step in between
FindByKeyNow(k) ==
    LET cached == CacheLookup(k)
    IN IF cached # <<>> /\ ~ParseThrows(cached[1]) THEN <<ParseCached(cached[1])>>
       ELSE IF k \in DOMAIN store THEN <<toDomain(store[k])>>
       ELSE <<>>
EvaluateFeatureNow(k, ctx) ==
    IF FindByKeyNow(k) = <<>> THEN Failure("FeatureNotFoundError")
    ELSE Success(<<evaluate(FindByKeyNow(k)[1], ctx)>>)

Succeeded(p) == pc[p] = "done" /\ out[p].err = "none"

\* C3: after addOrUpdateOverride(key, type, id, v) has succeeded, for any id
\* accepted by validateOverrideId, evaluateFeature with a context carrying
\* only that identifier returns v with that tier's reason; after
\* removeOverride has succeeded it returns global-default with the flag's
\* global value.
C3_RoundTrip ==
    \A p \in Procs :
        (Succeeded(p) /\ req[p].op \in OverrideOps) =>
            LET r == req[p]
                ctx == [f \in {TierField(r.type)} |-> r.id]
            IN EvaluateFeatureNow(r.key, ctx) =
                 Success(<<[key |-> r.key,
                            enabled |-> IF r.op = "addOrUpdateOverride" THEN r.enabled
                                        ELSE store[r.key].enabled,
                            reason |-> IF r.op = "addOrUpdateOverride" THEN TierReason(r.type)
                                       ELSE "global-default"]>>)

\* C4: the store write of addOrUpdateOverride(key, type, id, v) leaves the
\* record equal to the record before it with the entry (type, id) holding v
\* and nothing else changed; hence a repeated call changes nothing and a
\* call with another value replaces only that entry's value.
C4_IdempotentUpsert ==
    [][\A p \in Procs :
         (pc[p] = "repo_write" /\ pc'[p] = "cache_del" /\ req[p].op = "addOrUpdateOverride") =>
             /\ store'[req[p].key] = WithEntry(store[req[p].key], req[p].type, req[p].id, req[p].enabled)
             /\ \A k \in DOMAIN store \ {req[p].key} : k \in DOMAIN store' /\ store'[k] = store[k]]_vars

\* what a read of key k answers when it reflects the store's current record
ReadsStore(p) ==
    LET r == req[p]
    IN IF r.key \notin DOMAIN store
       THEN out[p].err = "FeatureNotFoundError"
       ELSE /\ out[p].err = "none"
            /\ IF r.op = "getFeature"
               THEN View(out[p].val[1]) = View(toDomain(store[r.key]))
               ELSE out[p].val[1] = evaluate(toDomain(store[r.key]), r.context)

\* C5: read-your-writes.  A write that ran without another write of the key
\* overlapping it is in the store when it returns (the new global value, the
\* entry set or removed, the record gone), and a getFeature/evaluateFeature
\* call made when no write of the key is in flight, with none started before
\* it returns, answers from that record (FeatureNotFoundError when deleted),
\* also when other reads were in flight while the write ran.
C5_ReadYourWrites ==
    \A p \in Procs :
        (pc[p] = "done" /\ clean[p] /\ out[p].err # "ValidationError") =>
            LET r == req[p]
            IN /\ r.op \in ReadOps => ReadsStore(p)
               /\ (r.op = "updateGlobalState" /\ Succeeded(p)) =>
                      r.key \in DOMAIN store /\ store[r.key].enabled = r.enabled
               /\ (r.op = "addOrUpdateOverride" /\ Succeeded(p)) =>
                      /\ r.key \in DOMAIN store
                      /\ r.id \in DOMAIN TierMap(store[r.key], r.type)
                      /\ TierMap(store[r.key], r.type)[r.id] = r.enabled
               /\ (r.op = "removeOverride" /\ Succeeded(p)) =>
                      r.key \in DOMAIN store /\ r.id \notin DOMAIN TierMap(store[r.key], r.type)
               /\ (r.op = "deleteFeature" /\ Succeeded(p)) => r.key \notin DOMAIN store

C7_NoStaleAfterDelete ==
    \A p \in Procs :
        (pc[p] = "done" /\ clean[p] /\ req[p].op = "getFeature"
         /\ out[p].err \in {"none", "FeatureNotFoundError"}) =>
            IF out[p].err = "none"
            THEN req[p].key \in DOMAIN store
                 /\ View(out[p].val[1]) = View(toDomain(store[req[p].key]))
            ELSE req[p].key \notin DOMAIN store

\* every cached entry is the serialized current record of an existing key
CacheCoherent ==
    \A k \in DOMAIN redis :
        k \in DOMAIN store /\ redis[k].value = Stringify(<<toDomain(store[k])>>)

\* C8: once the store no longer changes, the cache eventually holds no
\* value that differs from the store's current record, and stays so: from
\* then on findByKey returns the current record or null.
C8_EventualInvalidation ==
    (<>[][store' = store]_vars) => <>[]CacheCoherent

\* the cache holds a value the store no longer has while no write is in flight
C8_Witness ==
    /\ ~CacheCoherent
    /\ \A p \in Procs : ~(InFlight(p) /\ req[p].op \in WriteOps)

\* C9: a request during which the cache failed (disabled, not connected, a
\* command threw, an undeserializable value came back) has the outcome of
\* the same request against the store alone; no failure that originates in
\* the cache reaches the caller.
C9_CacheFailureTransparent ==
    \A p \in Procs :
        (pc[p] = "done" /\ io[p].fault) =>
            /\ out[p].err # "DatabaseError"
            /\ req[p].op \in ReadOps => ReadsStore(p)

\* C10: findByKey reads the cache once; on a hit it neither reads the store
\* nor calls cache.set; on a miss it reads the store once and calls
\* cache.set if and only if the store returned a record; the cache never
\* holds a serialized null; create and findAll make no cache call.
C10_CacheAsideProtocol ==
    /\ \A p \in Procs :
         /\ (pc[p] = "done" /\ req[p].op \in ReadOps /\ out[p].err # "ValidationError") =>
               /\ io[p].gets = 1
               /\ io[p].hit => io[p].finds = 0 /\ io[p].sets = 0
               /\ ~io[p].hit => /\ io[p].finds = 1
                                /\ io[p].sets = 1 <=> out[p].err = "none"
         /\ (pc[p] = "repo_write" /\ req[p].op \in OverrideOps) =>
               /\ io[p].gets = 1
               /\ io[p].hit => io[p].finds = 0 /\ io[p].sets = 0
               /\ ~io[p].hit => io[p].finds = 1 /\ io[p].sets = 1
         /\ (pc[p] = "done" /\ req[p].op \in {"createFeature", "getAllFeatures"}) => io[p] = NoIo
    /\ \A k \in DOMAIN redis : redis[k].value.kind = "json" => redis[k].value.body # <<>>

\* a lookup of a key that has no record missed an available cache, read the
\* store once and cached nothing
C10_Witness ==
    \E p \in Procs :
        /\ pc[p] = "done" /\ req[p].op = "getFeature"
        /\ out[p].err = "FeatureNotFoundError"
        /\ CacheAvailable
        /\ io[p].gets = 1 /\ io[p].finds = 1 /\ io[p].sets = 0
        /\ req[p].key \notin DOMAIN redis

\* ------------------------------------------------------------------------
\* HTTP layer: toDTO, FeatureController.getFeature, errorHandler

\* feature.createdAt?.toISOString(): defined on a Date, skipped for
\* undefined, a TypeError on a string (which has no such method)
ToISOStringThrows(v) == v = "string"
ToISOString(v) == IF v = "Date" THEN "iso-string" ELSE "undefined"

toDTOThrows(f) == ToISOStringThrows(f.createdAt) \/ ToISOStringThrows(f.updatedAt)
toDTO(f) ==
    [key |-> f.key, description |-> f.description, enabled |-> f.enabled,
     overrides |-> [users |-> [k \in DOMAIN f.overrides.users |-> f.overrides.users[k]],
                    groups |-> [k \in DOMAIN f.overrides.groups |-> f.overrides.groups[k]],
                    regions |-> [k \in DOMAIN f.overrides.regions |-> f.overrides.regions[k]]],
     createdAt |-> ToISOString(f.createdAt), updatedAt |-> ToISOString(f.updatedAt)]

\* errorHandler: the status and label for an error that reached it
errorHandler(e) ==
    IF e = "FeatureNotFoundError" THEN [status |-> 404, error |-> "Not Found"]
    ELSE IF e = "DuplicateFeatureError" THEN [status |-> 409, error |-> "Conflict"]
    ELSE IF e = "ValidationError" THEN [status |-> 400, error |-> "Bad Request"]
    ELSE [status |-> 500, error |-> "Internal Server Error"]

\* GET /api/features/:key for the outcome of featureService.getFeature
ControllerGetFeature(outcome) ==
    IF outcome.err # "none" THEN errorHandler(outcome.err)
    ELSE IF toDTOThrows(outcome.val[1]) THEN errorHandler("TypeError")
    ELSE [status |-> 200, body |-> toDTO(outcome.val[1])]

\* ------------------------------------------------------------------------
\* Properties of records, validation and errors

\* C11: the record findByKey returns on a cache hit equals, field for field,
\* the record the miss path returns for the same stored document, with
\* createdAt and updatedAt of the same kind of value, and GET
\* /api/features/:key answers 200 with the same DTO as on the miss path.
C11_CacheHitEqualsMiss ==
    \A p \in Procs :
        (Succeeded(p) /\ req[p].op = "getFeature" /\ io[p].hit) =>
            /\ req[p].key \in DOMAIN store
            /\ LET miss == toDomain(store[req[p].key])
               IN /\ out[p].val[1] = miss
                  /\ ControllerGetFeature(out[p]) = [status |-> 200, body |-> toDTO(miss)]

\* an argument is invalid: the key is not 1..100 characters of [A-Za-z0-9_-],
\* the description has over 500 characters, enabled is not a boolean, the
\* override type is not user, group or region, the override id is blank or
\* has over 100 characters, the context has no identifier or a supplied
\* identifier that is blank or has over 100 characters
InvalidId(id) == IsBlank(id) \/ Len(id) > 100
InvalidArgument(r) ==
    /\ r.op # "getAllFeatures"
    /\ \/ ~(Len(r.key) \in 1..100 /\ \A i \in 1..Len(r.key) : r.key[i] \in KeyChars)
       \/ r.op = "createFeature" /\ "description" \in DOMAIN r /\ Len(r.description) > 500
       \/ r.op \in {"createFeature", "updateGlobalState", "addOrUpdateOverride"}
             /\ "enabled" \notin DOMAIN r
       \/ r.op \in OverrideOps /\ (r.type \notin Tiers \/ InvalidId(r.id))
       \/ r.op = "evaluateFeature"
             /\ \/ \A f \in DOMAIN r.context : r.context[f] = EmptyStr
                \/ \E f \in DOMAIN r.context : InvalidId(r.context[f])

C14_DuplicateCreate ==
    [][\A p \in Procs :
         (pc[p] = "create" /\ pc'[p] = "done" /\ req[p].key \in DOMAIN store) =>
             /\ out'[p].err = "DuplicateFeatureError"
             /\ errorHandler(out'[p].err) = [status |-> 409, error |-> "Conflict"]
             /\ store' = store]_vars

\* C15: while a valid key has no record, no step of updateGlobalState,
\* addOrUpdateOverride, removeOverride or deleteFeature on that key changes
\* the store (no record is created, every other record stays as it is), the
\* operation never gets as far as its cache delete, and it ends with
\* FeatureNotFoundError.
C15_MutatorNotFound ==
    [][\A p \in Procs :
         (/\ InFlight(p) /\ pc[p] # "cache_del" /\ req[p].op \in MutatorOps
          /\ req[p].key \notin DOMAIN store /\ pc'[p] # pc[p]) =>
             /\ store' = store
             /\ pc'[p] # "cache_del"
             /\ pc'[p] = "done" => out'[p] = Failure("FeatureNotFoundError")]_vars

\* an override write on a key without a record was refused while another
\* flag exists
C15_Witness ==
    \E p \in Procs :
        /\ pc[p] = "done" /\ req[p].op = "addOrUpdateOverride"
        /\ out[p].err = "FeatureNotFoundError"
        /\ req[p].key \notin DOMAIN store /\ Key2 \in DOMAIN store

\* C16: a getFeature or evaluateFeature call on a valid key that has no
\* record while the call runs (no write of the key overlaps it) fails with
\* FeatureNotFoundError, which errorHandler answers with 404 Not Found.
C16_ReadNotFound ==
    \A p \in Procs :
        (/\ pc[p] = "done" /\ clean[p] /\ req[p].op \in ReadOps
         /\ out[p].err # "ValidationError" /\ req[p].key \notin DOMAIN store) =>
            /\ out[p] = Failure("FeatureNotFoundError")
            /\ errorHandler(out[p].err) = [status |-> 404, error |-> "Not Found"]

\* C17: removeOverride on an existing flag succeeds; its store write leaves
\* the record as it was when the (type, id) entry was not present, leaves
\* no (type, id) entry behind in any case, and touches no other record, so
\* a second application changes neither the state nor the outcome.
\* Records are compared without their timestamps.
C17_RemoveIdempotent ==
    [][\A p \in Procs :
         LET r == req[p]
         IN /\ (pc[p] = "repo_write" /\ pc'[p] = "cache_del" /\ r.op = "removeOverride") =>
                  /\ r.key \in DOMAIN store'
                  /\ r.id \notin DOMAIN TierMap(store[r.key], r.type) =>
                        View(store'[r.key]) = View(store[r.key])
                  /\ r.id \notin DOMAIN TierMap(store'[r.key], r.type)
                  /\ \A k \in DOMAIN store \ {r.key} : k \in DOMAIN store' /\ store'[k] = store[k]
            /\ (/\ InFlight(p) /\ r.op = "removeOverride" /\ r.key \in DOMAIN store
                /\ pc'[p] = "done") =>
                  pc[p] = "cache_del" /\ out'[p] = Success(<<>>)]_vars

\* C18: the store write of a successful addOrUpdateOverride or
\* removeOverride leaves the flag's record equal to the record before it
\* apart from the (type, id) entry named in the call; the store write of
\* updateGlobalState leaves it equal apart from enabled; in both cases no
\* other record is changed, added or removed.  Records are compared without
\* updatedAt, which the store sets on every mutation.
C18_MutatorFrame ==
    [][\A p \in Procs :
         LET r == req[p]
         IN (pc[p] = "repo_write" /\ pc'[p] = "cache_del" /\ r.op # "deleteFeature") =>
               /\ DOMAIN store' = DOMAIN store
               /\ \A k \in DOMAIN store \ {r.key} : store'[k] = store[k]
               /\ store'[r.key].createdAt = store[r.key].createdAt
               /\ r.op \in OverrideOps =>
                     WithoutEntry(View(store'[r.key]), r.type, r.id)
                       = WithoutEntry(View(store[r.key]), r.type, r.id)
               /\ r.op = "updateGlobalState" =>
                     [View(store'[r.key]) EXCEPT !.enabled = store[r.key].enabled]
                       = View(store[r.key])]_vars

\* the record holds the entry a completed addOrUpdateOverride call named,
\* with the value it wrote
HoldsEntryOf(doc, r) ==
    r.id \in DOMAIN TierMap(doc, r.type) /\ TierMap(doc, r.type)[r.id] = r.enabled

\* C19: once two concurrent addOrUpdateOverride calls on the same flag have
\* both completed, the record holds both entries with their written values
\* when the calls name different entries, and holds the entry with the value
\* of one of the calls when they name the same entry; apart from the named
\* entries the record is as it was before the calls.
C19_NoLostUpdate ==
    \A p \in Procs : \A q \in Procs \ {p} :
        (/\ Succeeded(p) /\ Succeeded(q)
         /\ req[p].op = "addOrUpdateOverride" /\ req[q].op = "addOrUpdateOverride"
         /\ req[p].key = req[q].key) =>
            LET doc == store[req[p].key]
            IN /\ IF <<req[p].type, req[p].id>> # <<req[q].type, req[q].id>>
                  THEN HoldsEntryOf(doc, req[p]) /\ HoldsEntryOf(doc, req[q])
                  ELSE HoldsEntryOf(doc, req[p]) \/ HoldsEntryOf(doc, req[q])
               /\ WithoutEntry(WithoutEntry(View(doc), req[p].type, req[p].id),
                                req[q].type, req[q].id)
                    = WithoutEntry(WithoutEntry(View(SeedDoc), req[p].type, req[p].id),
                                   req[q].type, req[q].id)

\* C20: with caching disabled, or a cache whose connection attempt failed,
\* every step of the cached repository does what the uncached repository
\* does on the same store contents: create, findAll and the mutators leave
\* the store and return the outcome of their uncached counterparts, every
\* findByKey goes on to read the store and hands on what the uncached
\* findByKey returns, and the cache is never written.
C20_DisabledEquivalence ==
    [][\A p \in Procs :
         (~rc.isEnabled /\ pc'[p] # pc[p]) =>
             LET r == req[p]
             IN /\ redis' = redis
                /\ pc[p] = "create" =>
                      [store |-> store', out |-> out'[p]] = UncachedCreate(store, r)
                /\ pc[p] = "findall" =>
                      store' = store /\ out'[p] = Success(UncachedFindAll(store))
                /\ pc[p] = "fbk_get" => store' = store /\ pc'[p] = "fbk_find"
                /\ pc[p] = "fbk_find" =>
                      /\ store' = store
                      /\ IF pc'[p] = "fbk_set"
                         THEN feature'[p] = UncachedFindByKey(store, r.key)
                         ELSE UncachedFindByKey(store, r.key) = <<>>
                              /\ out'[p] = Failure("FeatureNotFoundError")
                /\ pc[p] = "fbk_set" =>
                      /\ store' = store
                      /\ feature[p] = UncachedFindByKey(store, r.key)
                      /\ r.op = "getFeature" => out'[p] = Success(feature[p])
                      /\ r.op = "evaluateFeature" =>
                            out'[p] = Success(<<evaluate(feature[p][1], r.context)>>)
                /\ pc[p] = "repo_write" =>
                      [store |-> store',
                       out |-> IF pc'[p] = "done" THEN out'[p] ELSE Success(<<>>)]
                        \in UncachedWrite(store, r)
                /\ pc[p] = "cache_del" => store' = store /\ out'[p] = Success(<<>>)]_vars

\* with caching off, an override write went through the existence check
\* (one cache lookup, one store read) and the store write
C20_Witness ==
    \E p \in Procs :
        /\ ~rc.isEnabled /\ phase = "listening"
        /\ Succeeded(p) /\ req[p].op = "addOrUpdateOverride"
        /\ io[p].gets = 1 /\ io[p].finds = 1 /\ io[p].dels = 1 /\ ~io[p].deleted
        /\ HoldsEntryOf(store[req[p].key], req[p])
        /\ redis = [k \in {} |-> 0]

\* ------------------------------------------------------------------------
\* errorHandler applied to every error

\* the error classes of errors.ts and two classes from outside it
FeatureFlagErrors ==
    {"FeatureFlagError", "FeatureNotFoundError", "DuplicateFeatureError",
     "InvalidOverrideError", "ValidationError", "DatabaseError"}
UnknownErrors == {"TypeError", "Error"}
ErrorClasses == FeatureFlagErrors \cup UnknownErrors

\* messages an error can carry
Messages ==
    {"Feature 'f' not found", "Feature 'f' already exists", "Feature key is required",
     "Failed to find feature", "E11000 duplicate key error",
     "connect ECONNREFUSED 127.0.0.1:27017", "toISOString is not a function"}

ErrorInputs == [class : ErrorClasses, message : Messages]

\* error instanceof FeatureFlagError
IsFeatureFlagError(error) == error.class \in FeatureFlagErrors

\* every branch echoing error.message
errorMessageVerbatim(error) == error.message

\* errorHandler: the message of the response body
errorMessage(error) ==
    IF error.class = "FeatureNotFoundError" THEN error.message
    ELSE IF error.class = "DuplicateFeatureError" THEN error.message
    ELSE IF error.class = "ValidationError" THEN error.message
    ELSE IF error.class = "DatabaseError" THEN "A database error occurred"
    ELSE IF IsFeatureFlagError(error) THEN error.message
    ELSE "An unexpected error occurred"

\* errorHandler: the responses sent for an error, in order (each branch
\* sends one and returns)
errorResponses(error) ==
    <<[status |-> errorHandler(error.class).status,
       error |-> errorHandler(error.class).error,
       message |-> errorMessage(error)]>>

InitErr ==
    /\ evFlag = <<>>
    /\ evCtx \in ErrorInputs
    /\ evOut = <<>>
    /\ InitSys(FALSE)

ErrApply ==
    /\ evOut = <<>>
    /\ evOut' = <<errorResponses(evCtx)>>
    /\ UNCHANGED <<evFlag, evCtx>>
    /\ UNCHANGED sysVars

NextErr == ErrApply

SpecErr == InitErr /\ [][NextErr]_vars

\* C21: errorHandler answers every error with exactly one response: 404
\* 'Not Found' for FeatureNotFoundError, 409 'Conflict' for
\* DuplicateFeatureError, 400 'Bad Request' for ValidationError, and 500
\* 'Internal Server Error' for every other error; for a DatabaseError and for
\* an unknown error the message is a fixed string, the same for every
\* original message and never the original message
C21_ErrorMapping ==
    evOut # <<>> =>
        LET c == evCtx.class
            sent == evOut[1]
        IN  /\ Len(sent) = 1
            /\ c = "FeatureNotFoundError" =>
                  sent[1].status = 404 /\ sent[1].error = "Not Found"
            /\ c = "DuplicateFeatureError" =>
                  sent[1].status = 409 /\ sent[1].error = "Conflict"
            /\ c = "ValidationError" =>
                  sent[1].status = 400 /\ sent[1].error = "Bad Request"
            /\ c \notin {"FeatureNotFoundError", "DuplicateFeatureError", "ValidationError"} =>
                  sent[1].status = 500 /\ sent[1].error = "Internal Server Error"
            /\ c = "DatabaseError" \/ c \in UnknownErrors =>
                  /\ sent[1].message # evCtx.message
                  /\ sent[1].message \notin Messages
                  /\ \A other \in ErrorInputs :
                        other.class = c => errorResponses(other)[1].message = sent[1].message

\* a DatabaseError carrying the driver's message was answered
C21_Witness ==
    /\ evOut # <<>>
    /\ evCtx.class = "DatabaseError"
    /\ evCtx.message = "connect ECONNREFUSED 127.0.0.1:27017"
    /\ evOut[1][1].status = 500

\* ------------------------------------------------------------------------
\* Store failures: the awaited store call of a repository method rejects

StoreRequests ==
    ConcRequests \cup GetAllReqs
    \cup {[op |-> "createFeature", key |-> Key1, enabled |-> TRUE]}

\* doc.save(), find(), findOne(), updateOne() or deleteOne() rejects with a
\* driver error; the method's catch block turns it into the error it throws
StoreRejects(p) ==
    /\ pc[p] \in {"create", "findall", "fbk_find", "repo_write"}
    /\ \E error \in StoreErrors :
          out' = [out EXCEPT ![p] =
                    IF pc[p] = "create" THEN CatchCreate(error)
                    ELSE IF pc[p] = "repo_write" THEN CatchWrite(error)
                    ELSE CatchRead(error)]
    /\ pc' = [pc EXCEPT ![p] = "done"]
    /\ io' = [io EXCEPT ![p].finds = IF pc[p] = "fbk_find" THEN @ + 1 ELSE @]
    /\ UNCHANGED <<phase, store, redis, rc, faulty, req, feature, clean>>
    /\ UNCHANGED evalVars

InitStore ==
    /\ InitSys(FALSE)
    /\ evFlag = <<>> /\ evCtx = <<>> /\ evOut = <<>>

NextStore ==
    \/ Connect
    \/ \E r \in StoreRequests : Begin("c1", r)
    \/ StepCreate("c1")
    \/ StepFindAll("c1")
    \/ StepFbkGet("c1")
    \/ StepFbkFind("c1")
    \/ StepFbkSet("c1")
    \/ StepRepoWrite("c1")
    \/ StepCacheDel("c1")
    \/ StoreRejects("c1")
    \/ Return("c1")

SpecStore == InitStore /\ [][NextStore]_vars

\* C22: whatever a repository operation fails with reaches the service's
\* caller as FeatureNotFoundError or DuplicateFeatureError when the store
\* layer detected exactly that, and otherwise as a DatabaseError that carries
\* the original error in originalError; the caller never sees a raw store
\* error, and a detected not-found or duplicate is never wrapped
C22_ErrorPropagation ==
    /\ [](\A p \in Procs :
            pc[p] = "done" /\ out[p].err # "none" =>
                /\ out[p].err \in {"ValidationError", "FeatureNotFoundError",
                                   "DuplicateFeatureError", "DatabaseError"}
                /\ out[p].err = "DatabaseError" =>
                      /\ Len(out[p].originalError) = 1
                      /\ out[p].originalError[1] \in StoreErrors \cup {"ValidatorError"}
                /\ out[p].err = "DuplicateFeatureError" => req[p].op = "createFeature")
    /\ [][\A p \in Procs :
            /\ pc[p] = "repo_write" /\ pc'[p] = "done"
               /\ req[p].key \notin DOMAIN store /\ out'[p].err # "DatabaseError"
                  => out'[p].err = "FeatureNotFoundError"
            /\ pc[p] = "create" /\ req[p].key \in DOMAIN store
               /\ out'[p].err # "DatabaseError"
                  => out'[p].err = "DuplicateFeatureError"]_vars

\* an override write on an existing flag was rejected by the store and the
\* caller got a DatabaseError carrying the driver's error
C22_Witness ==
    \E p \in Procs :
        /\ pc[p] = "done" /\ req[p].op = "addOrUpdateOverride"
        /\ req[p].key \in DOMAIN store
        /\ out[p].err = "DatabaseError"
        /\ out[p].originalError = <<"MongoNetworkError">>

\* ------------------------------------------------------------------------
\* evaluateMultiple applied to lists of flags

MaxFlags == 2

\* flags of two keys; flags that share a key differ in state and overrides
MultiFlags ==
    [key : {"f1", "f2"}, enabled : BOOLEAN,
     overrides : [users : MapsOver({PlainId}), groups : {EmptyMap}, regions : {EmptyMap}]]
FlagLists == UNION {[1..n -> MultiFlags] : n \in 0..MaxFlags}
MultiContexts == ContextsOver({PlainId})

\* flags.map(...): the callback applied to the elements from first to last
RECURSIVE evaluateEach(_, _)
evaluateEach(flags, context) ==
    IF flags = <<>> THEN <<>>
    ELSE <<evaluate(Head(flags), context)>> \o evaluateEach(Tail(flags), context)

\* one evaluation per key: flags sharing a key get the result of the first
evaluateMultipleByKey(flags, context) ==
    [i \in 1..Len(flags) |->
        LET first == CHOOSE j \in 1..i :
                        /\ flags[j].key = flags[i].key
                        /\ \A h \in 1..(j - 1) : flags[h].key # flags[i].key
        IN evaluate(flags[first], context)]

\* flags.map((flag) => this.evaluate(flag, context))
evaluateMultiple(flags, context) == evaluateEach(flags, context)

InitMulti ==
    /\ evFlag \in FlagLists
    /\ evCtx \in MultiContexts
    /\ evOut = <<>>
    /\ InitSys(FALSE)

MultiApply ==
    /\ evOut = <<>>
    /\ evOut' = <<evaluateMultiple(evFlag, evCtx)>>
    /\ UNCHANGED <<evFlag, evCtx>>
    /\ UNCHANGED sysVars

NextMulti == MultiApply

SpecMulti == InitMulti /\ [][NextMulti]_vars

\* C23: evaluateMultiple(flags, context) returns as many results as there
\* are flags, in the same order, the i-th being evaluate(flags[i], context);
\* the empty list gives the empty list, and flags sharing a key are each
\* evaluated on their own
C23_EvaluateMultiplePointwise ==
    evOut # <<>> =>
        /\ Len(evOut[1]) = Len(evFlag)
        /\ \A i \in 1..Len(evFlag) : evOut[1][i] = evaluate(evFlag[i], evCtx)
        /\ evFlag = <<>> => evOut[1] = <<>>

\* two flags sharing a key were evaluated to different results
C23_Witness ==
    /\ evOut # <<>> /\ Len(evFlag) = 2
    /\ evFlag[1].key = evFlag[2].key
    /\ evOut[1][1].reason = "user-override" /\ evOut[1][2].reason = "global-default"
    /\ evOut[1][1].enabled # evOut[1][2].enabled

\* ------------------------------------------------------------------------
\* Frame of the read operations

ReadOnlyOps == {"getFeature", "getAllFeatures", "evaluateFeature"}

\* C24: getFeature, getAllFeatures and evaluateFeature never change the
\* store: every step of such a request, from the call to its completion,
\* leaves every flag record as it was; and the result of evaluateFeature is
\* evaluate applied to the record findByKey returned and the given context,
\* nothing else
C24_ReadsLeaveStore ==
    [][\A p \in Procs :
          pc'[p] # pc[p]
          /\ (IF pc[p] = "idle" THEN req'[p].op ELSE req[p].op) \in ReadOnlyOps
          => /\ store' = store
             /\ pc[p] # "idle" /\ pc'[p] = "done" /\ req[p].op = "evaluateFeature"
                /\ out'[p].err = "none"
                => \E f \in (IF pc[p] = "fbk_get"
                             THEN {ParseCached(redis[req[p].key].value)}
                             ELSE {feature[p][1]}) :
                        out'[p].val = <<evaluate(f, req[p].context)>>]_vars

\* an evaluation of a stored flag completed after reading the store
C24_Witness ==
    \E p \in Procs :
        /\ pc[p] = "done" /\ req[p].op = "evaluateFeature"
        /\ out[p].err = "none" /\ io[p].finds = 1
        /\ req[p].key \in DOMAIN store
        /\ store[req[p].key].overrides.users # EmptyMap

\* ------------------------------------------------------------------------
\* validateEvaluationContext applied to every argument

\* identifier values: valid, empty, blank, at and over the length limit,
\* null and a number
CtxArgValues ==
    {PlainId, EmptyStr, BlankId, StrOfLen(MaxOverrideIdLength), LongId, JsNull, JsNumber}

\* arguments: objects with any of the three identifiers, and values that are
\* not objects (undefined and a string have no fields)
CtxArgs ==
    [type : {"object"}, fields : ContextsOver(CtxArgValues)]
    \cup [type : {"undefined", "string"}, fields : ContextsOver({})]

InitCtx ==
    /\ evFlag = <<>>
    /\ evCtx \in CtxArgs
    /\ evOut = <<>>
    /\ InitSys(FALSE)

CtxApply ==
    /\ evOut = <<>>
    /\ evOut' = <<validateEvaluationContextArg(evCtx)>>
    /\ UNCHANGED <<evFlag, evCtx>>
    /\ UNCHANGED sysVars

NextCtx == CtxApply

SpecCtx == InitCtx /\ [][NextCtx]_vars

\* C25: validateEvaluationContext accepts its argument exactly when it is
\* an object, at least one of userId, groupId, regionId is present, and every
\* identifier that is provided is a string, not blank, of at most 100
\* characters; so in an accepted context every identifier that is present is
\* non-empty, and the evaluator's truthiness test coincides with presence
C25_ContextValidation ==
    evOut # <<>> =>
        LET c == evCtx.fields
            wellFormed(v) ==
                /\ v \notin {JsNull, JsNumber}
                /\ \E i \in 1..Len(v) : v[i] \notin Whitespace
                /\ Len(v) <= 100
        IN  /\ evOut[1] <=> /\ evCtx.type = "object"
                            /\ DOMAIN c # {}
                            /\ \A f \in DOMAIN c : wellFormed(c[f])
            /\ evOut[1] => \A f \in CtxFields : Truthy(c, f) <=> f \in DOMAIN c

\* a context with two identifiers, one of them of exactly 100 characters,
\* was accepted
C25_Witness ==
    /\ evOut # <<>> /\ evOut[1]
    /\ DOMAIN evCtx.fields = {"userId", "regionId"}
    /\ evCtx.fields.userId = PlainId
    /\ Len(evCtx.fields.regionId) = MaxOverrideIdLength

\* ------------------------------------------------------------------------
\* Creation

\* the contexts validateEvaluationContext accepts, over two identifiers
ValidContexts ==
    {c \in ContextsOver({PlainId, OtherId}) : validateEvaluationContext(c)}

\* C26: when createFeature has succeeded, the store holds a record for the
\* key with the given enabled value and three empty override maps, and
\* evaluateFeature on the key returns global-default with that value for
\* every valid context
C26_FreshFlagDefault ==
    \A p \in Procs :
        (Succeeded(p) /\ req[p].op = "createFeature") =>
            LET r == req[p]
            IN /\ r.key \in DOMAIN store
               /\ store[r.key].enabled = r.enabled
               /\ store[r.key].overrides =
                     [users |-> EmptyMap, groups |-> EmptyMap, regions |-> EmptyMap]
               /\ \A c \in ValidContexts :
                     EvaluateFeatureNow(r.key, c) =
                        Success(<<[key |-> r.key, enabled |-> r.enabled,
                                   reason |-> "global-default"]>>)

\* ------------------------------------------------------------------------
\* Cache coherence between operations

\* C27: whenever no repository operation on a key is in flight, a cache
\* entry for the key implies that the key exists in the store and that the
\* entry is the serialization of the store's current record; this covers
\* periods in which Redis was not connected and later became ready again
C27_QuiescentCoherence ==
    \A k \in DOMAIN redis :
        (\A p \in Procs : ~(InFlight(p) /\ "key" \in DOMAIN req[p] /\ req[p].key = k)) =>
            /\ k \in DOMAIN store
            /\ redis[k].value = Stringify(<<toDomain(store[k])>>)

\* ------------------------------------------------------------------------
\* Override writes racing with a delete: the flag exists at the start, one
\* client writes overrides, the other deletes the flag; nobody creates

NextDel ==
    \/ Connect
    \/ Expire
    \/ \E r \in AddReqs({Key1}, {"user"}, {PlainId}) \cup RemoveReqs({Key1}, {"group"}, {PlainId}) :
          Begin("c1", r)
    \/ \E r \in DeleteReqs({Key1}) : Begin("c2", r)
    \/ \E p \in Procs : StepFbkGet(p)
    \/ \E p \in Procs : StepFbkFind(p)
    \/ \E p \in Procs : StepFbkSet(p)
    \/ \E p \in Procs : StepRepoWrite(p)
    \/ \E p \in Procs : StepCacheDel(p)
    \/ \E p \in Procs : Return(p)

SpecDel == InitAdd /\ [][NextDel]_vars

\* C28: addOrUpdateOverride and removeOverride check existence with
\* getFeature and then call the repository.  When the flag is gone by the
\* time of the repository call (deleted in between, or the check was answered
\* from a cache entry of a deleted flag), the operation fails with
\* FeatureNotFoundError, the write creates no record, and no record for the
\* key exists when the operation has failed
C28_NoResurrection ==
    /\ [][\A p \in Procs :
            (pc[p] = "repo_write" /\ pc'[p] # "repo_write"
             /\ req[p].op \in OverrideOps /\ req[p].key \notin DOMAIN store) =>
                /\ pc'[p] = "done"
                /\ out'[p] = Failure("FeatureNotFoundError")
                /\ store' = store]_vars
    /\ [](\A p \in Procs :
            (pc[p] = "done" /\ req[p].op \in OverrideOps
             /\ out[p].err = "FeatureNotFoundError") => req[p].key \notin DOMAIN store)

\* the existence check read the flag from the store, the flag was deleted
\* before the repository call, and the override write failed
C28_Witness ==
    \E p \in Procs :
        /\ pc[p] = "done" /\ req[p].op = "addOrUpdateOverride"
        /\ out[p].err = "FeatureNotFoundError"
        /\ io[p].finds = 1 /\ io[p].sets = 1
        /\ req[p].key \notin DOMAIN store

\* ------------------------------------------------------------------------
\* RedisCache availability

\* C29: a cache operation reaches Redis (returns a stored value, writes or
\* deletes an entry) only when isEnabled, isConnected and client !== null all
\* hold, and otherwise changes nothing; once isEnabled is false it stays
\* false; isConnected changes only by a connection event of an existing
\* client with its handlers registered (true on 'ready', false on 'error' or
\* 'end'), never by a request
C29_AvailabilityGate ==
    /\ [][\A p \in Procs :
            pc'[p] # pc[p] =>
                /\ (redis' # redis \/ (io'[p].hit /\ ~io[p].hit)) =>
                      rc.isEnabled /\ rc.isConnected /\ rc.client
                /\ rc' = rc]_vars
    /\ [][~rc.isEnabled => ~rc'.isEnabled]_vars
    /\ [][rc'.isConnected # rc.isConnected =>
            /\ rc'.client /\ rc'.handlers /\ rc'.isEnabled
            /\ pc' = pc /\ redis' = redis /\ store' = store]_vars
    /\ [](rc.isConnected => rc.client /\ rc.handlers)

\* a mutation completed while Redis was not connected: its cache delete
\* returned without contacting Redis and the entry is still there
C29_Witness ==
    \E p \in Procs :
        /\ pc[p] = "done" /\ req[p].op \in MutatorOps /\ out[p].err = "none"
        /\ rc.isEnabled /\ rc.client /\ ~rc.isConnected
        /\ io[p].dels = 1 /\ ~io[p].deleted
        /\ req[p].key \in DOMAIN redis

\* ------------------------------------------------------------------------
\* reconnectStrategy applied to every retry count

MaxRetries == 60

\* the retry limit, the delay per retry and the delay cap of reconnectStrategy
MaxReconnectRetries == 10
RetryDelayMs == 100
MaxRetryDelayMs == 3000

\* Math.min
Min(a, b) == IF a < b THEN a ELSE b

\* socket.reconnectStrategy: an Error after more than 10 retries, otherwise
\* the delay in milliseconds
reconnectStrategy(retries) ==
    IF retries > MaxReconnectRetries
    THEN [kind |-> "error", message |-> "Max reconnection attempts reached"]
    ELSE [kind |-> "delay", ms |-> Min(retries * RetryDelayMs, MaxRetryDelayMs)]

InitBackoff ==
    /\ evFlag = <<>>
    /\ evCtx \in 0..MaxRetries
    /\ evOut = <<>>
    /\ InitSys(FALSE)

BackoffApply ==
    /\ evOut = <<>>
    /\ evOut' = <<reconnectStrategy(evCtx)>>
    /\ UNCHANGED <<evFlag, evCtx>>
    /\ UNCHANGED sysVars

NextBackoff == BackoffApply

SpecBackoff == InitBackoff /\ [][NextBackoff]_vars

\* C30: the reconnect strategy backs off exponentially: the delay for retry
\* n is 100ms, 200ms, 400ms, ... (doubling from 100ms), capped at 3000ms, and
\* after more than 10 retries it returns an error instead of a delay
C30_ExponentialBackoff ==
    (evOut # <<>> /\ evCtx >= 1) =>
        IF evCtx > 10
        THEN evOut[1].kind = "error"
        ELSE /\ evOut[1].kind = "delay"
             /\ evOut[1].ms = Min(100 * 2 ^ (evCtx - 1), 3000)

====
